---- MODULE Spec2Model ----
(***************************************************************************)
(* Model of the Microchip MCP3221 IIO driver (mcp3221.c).                  *)
(*                                                                         *)
(* The driver binds one I2C client (mcp3221_probe), and then serves the    *)
(* IIO framework's read_raw / write_raw callbacks.  A RAW read takes the   *)
(* per-device mutex, receives 2 bytes from the bus, decodes them as a      *)
(* signed 12-bit sample and releases the mutex.                            *)
(*                                                                         *)
(* Callers are the framework's concurrent contexts; each one runs one      *)
(* callback at a time.  A callback is split into steps only where another  *)
(* context can observe it: at mutex_lock (which blocks) and around the     *)
(* blocking bus receive.                                                   *)
(***************************************************************************)
EXTENDS Integers, Sequences, FiniteSets, TLC

\* ----------------------------------------------------------------- bounds

NumCallers == 2

Callers == 1..NumCallers

\* ------------------------------------------------------ program constants

EINVAL == 22
ENOMEM == 12
EOPNOTSUPP == 95

IIO_VAL_INT == 1
IIO_VAL_INT_PLUS_MICRO == 2
IIO_VAL_INT_PLUS_NANO == 3

\* The width of a u8 and the number of bytes asked of the bus.
U8_MAX == 255
RECV_COUNT == 2

\* The sign bit handed to sign_extend32.
SIGN_BIT == 11

SAMP_FREQ_HZ == 5500

\* 3300000000/4096 with C's truncating division.  The dividend does not fit
\* a 32-bit integer, so it is written as 3300000 * 1000 and divided exactly:
\* (a*k) div d = (a div d)*k + ((a mod d)*k) div d.
NV_FULL_SCALE_K == 3300000
NV_FULL_SCALE_M == 1000
ADC_CODES == 4096

NV_PER_LSB_rounded_up ==
    (NV_FULL_SCALE_K \div ADC_CODES) * NV_FULL_SCALE_M
        + (((NV_FULL_SCALE_K % ADC_CODES) * NV_FULL_SCALE_M) \div ADC_CODES) + 1

NV_PER_LSB ==
    (NV_FULL_SCALE_K \div ADC_CODES) * NV_FULL_SCALE_M
        + (((NV_FULL_SCALE_K % ADC_CODES) * NV_FULL_SCALE_M) \div ADC_CODES)

\* ------------------------------------------------------------ environment

\* The info kinds the framework may ask for (enum iio_chan_info_enum); the
\* driver names three of them, OFFSET stands for all the others.
Masks == {"RAW", "SCALE", "SAMP_FREQ", "OFFSET"}

\* The info kinds mcp3221_read_raw has a case for.
SupportedMasks == {"RAW", "SCALE", "SAMP_FREQ"}

\* channel->channel of the request.  The driver registers channel 0 only; the
\* callback itself accepts any descriptor.
Channels == {0, 1}

\* What the caller's output integers hold before the callback runs.
PrevVals == {9999}

\* Replies of the chip used in the concurrent specification: 100, and 2148
\* (bit 11 set) with the high nibble of the first byte set.  SpecDecode runs
\* over every reply.
Replies == {<<0, 100>>, <<248, 100>>}

AllReplies == (0..U8_MAX) \X (0..U8_MAX)

\* The negative errno the bus transport returns on failure (-EIO stands for
\* all of them: the driver only tests the sign).
TransportErrnos == {-5}

\* Errors devm_iio_device_register may return.
RegisterErrnos == {-ENOMEM, -EINVAL}

\* ------------------------------------------------------------------ state

VARIABLES
    \* mcp3221_probe
    i2c_func,       \* the adapter has I2C_FUNC_I2C
    probe_pc,       \* position of mcp3221_probe
    probe_ret,      \* its return value, once probe_pc = "done"
    probe_err,      \* err of mcp3221_probe: what devm_iio_device_register returned
    allocated,      \* devm_iio_device_alloc has returned a device
    adc_i2c,        \* adc->i2c has been set
    mutex_inited,   \* mutex_init(&adc->lock) has run
    registered,     \* devm_iio_device_register has succeeded
    clientdata,     \* i2c_set_clientdata has run
    \* struct mcp3221
    lock,           \* adc->lock: 0 when free, else the caller holding it
    \* the bus
    i2c_inflight,   \* callers with a receive started and not yet finished
    i2c_data,       \* the bytes the chip has put on the wire
    i2c_count,      \* the number of bytes the receive on the wire asks for
    replies,        \* the replies the chip can give
    \* per caller
    pc,             \* position of the caller's callback
    op,             \* "read" (read_raw) or "write" (write_raw)
    mask,           \* the info kind requested
    chan,           \* channel->channel of the request
    val1,           \* *val1
    val2,           \* *val2
    buf,            \* buf[] of mcp3221_read
    xfer,           \* ret of mcp3221_read: what i2c_master_recv returned
    ret,            \* the callback's return value, once pc = "done"
    started,        \* the bytes the chip sent in the transaction this caller started
    ntrans          \* bus receives this caller has issued in the current request

probeVars == <<i2c_func, probe_pc, probe_ret, probe_err, allocated, adc_i2c, mutex_inited,
               registered, clientdata>>
busVars == <<i2c_inflight, i2c_data, i2c_count, replies>>
callVars == <<pc, op, mask, chan, val1, val2, buf, xfer, ret, started, ntrans>>
vars == <<probeVars, lock, busVars, callVars>>

\* ------------------------------------------------------------- the decoder

\* A u32 as its bits, bit 0 first.  get_unaligned_be16 yields a u16; storing
\* it in the u32 temp zero-extends it.
Bit(n, i) == (n \div (2 ^ i)) % 2

U32OfU16(n) == [i \in 0..31 |-> IF i < 16 THEN Bit(n, i) ELSE 0]

\* value << s on a u32: the bits shifted out at the top are lost.
Shl32(w, s) == [i \in 0..31 |-> IF i >= s THEN w[i - s] ELSE 0]

\* (s32)w >> s: the sign bit is copied in at the top.
Sar32(w, s) == [i \in 0..31 |-> IF i + s <= 31 THEN w[i + s] ELSE w[31]]

RECURSIVE LowBitsValue(_, _)
LowBitsValue(w, i) ==
    IF i < 0 THEN 0 ELSE w[i] * (2 ^ i) + LowBitsValue(w, i - 1)

\* The two's-complement value of a 32-bit word.
S32Value(w) ==
    IF w[31] = 1
    THEN (LowBitsValue(w, 30) - (2 ^ 30)) - (2 ^ 30)
    ELSE LowBitsValue(w, 30)

get_unaligned_be16(b) == b[1] * (U8_MAX + 1) + b[2]

sign_extend32_no_shift_left(value, index) ==
    S32Value(Sar32(U32OfU16(value), 0))

sign_extend32_index_plus_one(value, index) ==
    S32Value(Sar32(Shl32(U32OfU16(value), 31 - (index + 1)), 31 - (index + 1)))

\* sign_extend32(value, index): shift = 31 - index;
\* (s32)(value << shift) >> shift.
sign_extend32(value, index) ==
    S32Value(Sar32(Shl32(U32OfU16(value), 31 - index), 31 - index))

\* temp = get_unaligned_be16(&buf[0]); *value = sign_extend32(temp, 11).
decode(b) == sign_extend32(get_unaligned_be16(b), SIGN_BIT)

ZeroBuf == <<0, 0, 0, 0>>

\* buf after a receive that stored the first n bytes of d.
Received(d, n) == [i \in 1..4 |-> IF i <= n THEN d[i] ELSE 0]

\* ------------------------------------------------------------------- Init

CallInit ==
    /\ pc = [c \in Callers |-> "idle"]
    /\ op = [c \in Callers |-> "none"]
    /\ mask = [c \in Callers |-> "none"]
    /\ chan = [c \in Callers |-> 0]
    /\ val1 = [c \in Callers |-> 0]
    /\ val2 = [c \in Callers |-> 0]
    /\ buf = [c \in Callers |-> ZeroBuf]
    /\ xfer = [c \in Callers |-> 0]
    /\ ret = [c \in Callers |-> 0]
    /\ started = [c \in Callers |-> <<0, 0>>]
    /\ ntrans = [c \in Callers |-> 0]

Init ==
    /\ i2c_func \in BOOLEAN
    /\ probe_pc = "start"
    /\ probe_ret = 0
    /\ probe_err = 0
    /\ allocated = FALSE
    /\ adc_i2c = FALSE
    /\ mutex_inited = FALSE
    /\ registered = FALSE
    /\ clientdata = FALSE
    /\ lock = 0
    /\ i2c_inflight = {}
    /\ i2c_data = <<0, 0>>
    /\ i2c_count = 0
    /\ replies = Replies
    /\ CallInit

\* ---------------------------------------------------------- mcp3221_probe

probe_check_skipped ==
    /\ probe_pc = "start"
    /\ probe_pc' = "alloc"
    /\ UNCHANGED <<i2c_func, probe_ret, probe_err, allocated, adc_i2c,
                   mutex_inited, registered, clientdata, lock, busVars,
                   callVars>>

\* if (!i2c_check_functionality(...)) return -EOPNOTSUPP;
probe_check ==
    /\ probe_pc = "start"
    /\ IF ~i2c_func
       THEN probe_pc' = "done" /\ probe_ret' = -EOPNOTSUPP
       ELSE probe_pc' = "alloc" /\ probe_ret' = probe_ret
    /\ UNCHANGED <<i2c_func, probe_err, allocated, adc_i2c, mutex_inited,
                   registered, clientdata, lock, busVars, callVars>>

\* indio_dev = devm_iio_device_alloc(...); if (!indio_dev) return -ENOMEM;
probe_alloc ==
    /\ probe_pc = "alloc"
    /\ \E ok \in BOOLEAN :
         IF ok
         THEN allocated' = TRUE /\ probe_pc' = "init" /\ probe_ret' = probe_ret
         ELSE allocated' = FALSE /\ probe_pc' = "done" /\ probe_ret' = -ENOMEM
    /\ UNCHANGED <<i2c_func, probe_err, adc_i2c, mutex_inited, registered,
                   clientdata, lock, busVars, callVars>>

probe_init_without_mutex_init ==
    /\ probe_pc = "init"
    /\ adc_i2c' = TRUE
    /\ probe_pc' = "register"
    /\ UNCHANGED <<i2c_func, probe_ret, probe_err, allocated, mutex_inited,
                   registered, clientdata, lock, busVars, callVars>>

\* adc->i2c = client; mutex_init(&adc->lock); the indio_dev fields.
probe_init ==
    /\ probe_pc = "init"
    /\ adc_i2c' = TRUE
    /\ mutex_inited' = TRUE
    /\ lock' = 0
    /\ probe_pc' = "register"
    /\ UNCHANGED <<i2c_func, probe_ret, probe_err, allocated, registered,
                   clientdata, busVars, callVars>>

\* err = devm_iio_device_register(...); if (err < 0) return err;
probe_register ==
    /\ probe_pc = "register"
    /\ \E err \in {0} \cup RegisterErrnos :
         /\ probe_err' = err
         /\ IF err < 0
            THEN registered' = FALSE /\ probe_pc' = "done" /\ probe_ret' = err
            ELSE registered' = TRUE /\ probe_pc' = "setdata" /\ probe_ret' = probe_ret
    /\ UNCHANGED <<i2c_func, allocated, adc_i2c, mutex_inited, clientdata,
                   lock, busVars, callVars>>

\* i2c_set_clientdata(client, indio_dev); return 0;
probe_setdata ==
    /\ probe_pc = "setdata"
    /\ clientdata' = TRUE
    /\ probe_ret' = 0
    /\ probe_pc' = "done"
    /\ UNCHANGED <<i2c_func, probe_err, allocated, adc_i2c, mutex_inited,
                   registered, lock, busVars, callVars>>

mcp3221_probe ==
    \/ probe_check
    \/ probe_alloc
    \/ probe_init
    \/ probe_register
    \/ probe_setdata

\* ------------------------------------------------------- the lock, the bus

mutex_lock_no_wait(c) ==
    lock' = c

\* mutex_lock(&adc->lock): returns once the mutex is free, holding it.
mutex_lock(c) ==
    /\ lock = 0
    /\ lock' = c

mutex_unlock_skipped(c) ==
    lock' = lock

\* mutex_unlock(&adc->lock)
mutex_unlock(c) ==
    lock' = 0

\* The first half of i2c_master_recv(adc->i2c, buf, 2): the receive is on
\* the wire and the chip answers with one of its replies.
i2c_master_recv_start(c) ==
    /\ i2c_inflight' = i2c_inflight \cup {c}
    /\ i2c_count' = RECV_COUNT
    /\ \E d \in replies :
         /\ i2c_data' = d
         /\ started' = [started EXCEPT ![c] = d]
    /\ UNCHANGED replies

\* The second half: the receive returns r, having stored the first n bytes
\* that are on the wire.
i2c_master_recv_finish(c, r, n) ==
    /\ buf' = [buf EXCEPT ![c] = Received(i2c_data, n)]
    /\ xfer' = [xfer EXCEPT ![c] = r]
    /\ i2c_inflight' = i2c_inflight \ {c}
    /\ i2c_data' = IF i2c_inflight \ {c} = {} THEN <<0, 0>> ELSE i2c_data
    /\ i2c_count' = IF i2c_inflight \ {c} = {} THEN 0 ELSE i2c_count
    /\ UNCHANGED replies

\* ------------------------------------------------------- mcp3221_read_raw

\* case IIO_CHAN_INFO_RAW: the call of mcp3221_read_channel, up to its
\* mutex_lock.
read_raw_RAW(c, ch) ==
    /\ pc[c] = "idle"
    /\ registered
    /\ \E p \in PrevVals :
         /\ val1' = [val1 EXCEPT ![c] = p]
         /\ val2' = [val2 EXCEPT ![c] = p]
    /\ op' = [op EXCEPT ![c] = "read"]
    /\ mask' = [mask EXCEPT ![c] = "RAW"]
    /\ chan' = [chan EXCEPT ![c] = ch]
    /\ pc' = [pc EXCEPT ![c] = "lock"]
    /\ UNCHANGED <<probeVars, lock, busVars, buf, xfer, ret, started, ntrans>>

mcp3221_read_channel_enter_unlocked(c) ==
    /\ pc[c] = "lock"
    /\ pc' = [pc EXCEPT ![c] = "read"]
    /\ UNCHANGED <<probeVars, lock, busVars, op, mask, chan, val1, val2, buf,
                   xfer, ret, started, ntrans>>

\* mutex_lock(&adc->lock);
mcp3221_read_channel_enter(c) ==
    /\ pc[c] = "lock"
    /\ mutex_lock(c)
    /\ pc' = [pc EXCEPT ![c] = "read"]
    /\ UNCHANGED <<probeVars, busVars, op, mask, chan, val1, val2, buf, xfer,
                   ret, started, ntrans>>

\* mcp3221_read: ret = 0; buf = {0, 0, 0, 0}; i2c_master_recv starts.
mcp3221_read_begin(c) ==
    /\ pc[c] = "read"
    /\ i2c_master_recv_start(c)
    /\ buf' = [buf EXCEPT ![c] = ZeroBuf]
    /\ xfer' = [xfer EXCEPT ![c] = 0]
    /\ ntrans' = [ntrans EXCEPT ![c] = ntrans[c] + 1]
    /\ pc' = [pc EXCEPT ![c] = "recv"]
    /\ UNCHANGED <<probeVars, lock, op, mask, chan, val1, val2, ret>>

mcp3221_read_end_retries(c, r, n) ==
    /\ pc[c] = "recv"
    /\ i2c_master_recv_finish(c, r, n)
    /\ val1' = [val1 EXCEPT ![c] = decode(Received(i2c_data, n))]
    /\ pc' = [pc EXCEPT ![c] = IF r < 0 /\ ntrans[c] < 2 THEN "read" ELSE "unlock"]
    /\ UNCHANGED <<probeVars, lock, op, mask, chan, val2, ret, started, ntrans>>

mcp3221_read_end_by_channel(c, r, n) ==
    /\ pc[c] = "recv"
    /\ i2c_master_recv_finish(c, r, n)
    /\ val1' = [val1 EXCEPT ![c] =
                  decode(<<Received(i2c_data, n)[2 * chan[c] + 1],
                           Received(i2c_data, n)[2 * chan[c] + 2]>>)]
    /\ pc' = [pc EXCEPT ![c] = "unlock"]
    /\ UNCHANGED <<probeVars, lock, op, mask, chan, val2, ret, started, ntrans>>

mcp3221_read_end_keeps_value_on_error(c, r, n) ==
    /\ pc[c] = "recv"
    /\ i2c_master_recv_finish(c, r, n)
    /\ val1' = [val1 EXCEPT ![c] =
                  IF r < 0 THEN val1[c] ELSE decode(Received(i2c_data, n))]
    /\ pc' = [pc EXCEPT ![c] = "unlock"]
    /\ UNCHANGED <<probeVars, lock, op, mask, chan, val2, ret, started, ntrans>>

\* mcp3221_read: i2c_master_recv returns; temp = get_unaligned_be16(buf);
\* *value = sign_extend32(temp, 11); return ret.
mcp3221_read_end(c, r, n) ==
    /\ pc[c] = "recv"
    /\ i2c_master_recv_finish(c, r, n)
    /\ val1' = [val1 EXCEPT ![c] = decode(Received(i2c_data, n))]
    /\ pc' = [pc EXCEPT ![c] = "unlock"]
    /\ UNCHANGED <<probeVars, lock, op, mask, chan, val2, ret, started, ntrans>>

mcp3221_read_channel_exit_error_keeps_lock(c) ==
    /\ pc[c] = "unlock"
    /\ IF xfer[c] < 0 THEN lock' = lock ELSE mutex_unlock(c)
    /\ ret' = [ret EXCEPT ![c] = IF xfer[c] < 0 THEN -EINVAL ELSE IIO_VAL_INT]
    /\ pc' = [pc EXCEPT ![c] = "done"]
    /\ UNCHANGED <<probeVars, busVars, op, mask, chan, val1, val2, buf, xfer,
                   started, ntrans>>

mcp3221_read_channel_exit_short_is_error(c) ==
    /\ pc[c] = "unlock"
    /\ mutex_unlock(c)
    /\ ret' = [ret EXCEPT ![c] =
                 IF xfer[c] # RECV_COUNT THEN -EINVAL ELSE IIO_VAL_INT]
    /\ pc' = [pc EXCEPT ![c] = "done"]
    /\ UNCHANGED <<probeVars, busVars, op, mask, chan, val1, val2, buf, xfer,
                   started, ntrans>>

\* mutex_unlock(&adc->lock); return ret; and in mcp3221_read_raw:
\* if (err < 0) return -EINVAL; return IIO_VAL_INT;
mcp3221_read_channel_exit(c) ==
    /\ pc[c] = "unlock"
    /\ mutex_unlock(c)
    /\ ret' = [ret EXCEPT ![c] = IF xfer[c] < 0 THEN -EINVAL ELSE IIO_VAL_INT]
    /\ pc' = [pc EXCEPT ![c] = "done"]
    /\ UNCHANGED <<probeVars, busVars, op, mask, chan, val1, val2, buf, xfer,
                   started, ntrans>>

\* A callback that runs to its return without blocking: it is entered with
\* info kind m on channel ch, leaves v1 and v2 in the outputs and returns r.
Answer(c, o, m, ch, v1, v2, r) ==
    /\ pc[c] = "idle"
    /\ registered
    /\ op' = [op EXCEPT ![c] = o]
    /\ mask' = [mask EXCEPT ![c] = m]
    /\ chan' = [chan EXCEPT ![c] = ch]
    /\ val1' = [val1 EXCEPT ![c] = v1]
    /\ val2' = [val2 EXCEPT ![c] = v2]
    /\ ret' = [ret EXCEPT ![c] = r]
    /\ pc' = [pc EXCEPT ![c] = "done"]
    /\ UNCHANGED <<probeVars, lock, busVars, buf, xfer, started, ntrans>>

read_raw_SCALE_locked(c) ==
    /\ lock = 0
    /\ \E ch \in Channels, p \in PrevVals :
         Answer(c, "read", "SCALE", ch, 0, NV_PER_LSB, IIO_VAL_INT_PLUS_NANO)

\* case IIO_CHAN_INFO_SCALE: *val1 = 0; *val2 = 3300000000/4096;
\* return IIO_VAL_INT_PLUS_NANO;
read_raw_SCALE(c) ==
    \E ch \in Channels, p \in PrevVals :
        Answer(c, "read", "SCALE", ch, 0, NV_PER_LSB, IIO_VAL_INT_PLUS_NANO)

read_raw_SAMP_FREQ_micro(c) ==
    \E ch \in Channels, p \in PrevVals :
        Answer(c, "read", "SAMP_FREQ", ch, SAMP_FREQ_HZ, p, IIO_VAL_INT_PLUS_MICRO)

\* case IIO_CHAN_INFO_SAMP_FREQ: *val1 = 5500; return IIO_VAL_INT;
read_raw_SAMP_FREQ(c) ==
    \E ch \in Channels, p \in PrevVals :
        Answer(c, "read", "SAMP_FREQ", ch, SAMP_FREQ_HZ, p, IIO_VAL_INT)

read_raw_default_falls_into_RAW(c) ==
    \E ch \in Channels, p \in PrevVals, m \in Masks \ SupportedMasks :
        /\ pc[c] = "idle"
        /\ registered
        /\ op' = [op EXCEPT ![c] = "read"]
        /\ mask' = [mask EXCEPT ![c] = m]
        /\ chan' = [chan EXCEPT ![c] = ch]
        /\ val1' = [val1 EXCEPT ![c] = p]
        /\ val2' = [val2 EXCEPT ![c] = p]
        /\ pc' = [pc EXCEPT ![c] = "lock"]
        /\ UNCHANGED <<probeVars, lock, busVars, buf, xfer, ret, started, ntrans>>

\* default: break; return -EINVAL;
read_raw_default(c) ==
    \E ch \in Channels, p \in PrevVals,
       m \in Masks \ SupportedMasks :
        Answer(c, "read", m, ch, p, p, -EINVAL)

mcp3221_read_raw(c) ==
    \/ \E ch \in Channels : read_raw_RAW(c, ch)
    \/ read_raw_SCALE(c)
    \/ read_raw_SAMP_FREQ(c)
    \/ read_raw_default(c)

\* ------------------------------------------------------ mcp3221_write_raw

\* Every arm of the switch, and the fall-through, returns -EINVAL.  val1 and
\* val2 are passed by value; the caller's integers are left as they were.
mcp3221_write_raw(c) ==
    \E ch \in Channels, p \in PrevVals, m \in Masks :
        Answer(c, "write", m, ch, p, p, -EINVAL)

\* The callback has returned and the framework has consumed its result.
Return(c) ==
    /\ pc[c] = "done"
    /\ pc' = [pc EXCEPT ![c] = "idle"]
    /\ op' = [op EXCEPT ![c] = "none"]
    /\ mask' = [mask EXCEPT ![c] = "none"]
    /\ chan' = [chan EXCEPT ![c] = 0]
    /\ val1' = [val1 EXCEPT ![c] = 0]
    /\ val2' = [val2 EXCEPT ![c] = 0]
    /\ buf' = [buf EXCEPT ![c] = ZeroBuf]
    /\ xfer' = [xfer EXCEPT ![c] = 0]
    /\ ret' = [ret EXCEPT ![c] = 0]
    /\ started' = [started EXCEPT ![c] = <<0, 0>>]
    /\ ntrans' = [ntrans EXCEPT ![c] = 0]
    /\ UNCHANGED <<probeVars, lock, busVars>>

\* ---------------------------------------------------------- specification

\* The outcomes of a receive: a count of bytes read, all of them stored; or
\* an errno, with any number of bytes stored before the failure.
RecvOutcomes ==
    {<<r, r>> : r \in 0..RECV_COUNT} \cup (TransportErrnos \X (0..RECV_COUNT))

Next ==
    \/ mcp3221_probe
    \/ \E c \in Callers : mcp3221_read_raw(c)
    \/ \E c \in Callers : mcp3221_write_raw(c)
    \/ \E c \in Callers : mcp3221_read_channel_enter(c)
    \/ \E c \in Callers : mcp3221_read_begin(c)
    \/ \E c \in Callers, o \in RecvOutcomes : mcp3221_read_end(c, o[1], o[2])
    \/ \E c \in Callers : mcp3221_read_channel_exit(c)
    \/ \E c \in Callers : Return(c)

Spec == Init /\ [][Next]_vars

\* A step of a caller that is between mutex_lock and mutex_unlock.
CriticalStep ==
    \E c \in Callers :
        \/ mcp3221_read_begin(c)
        \/ \E o \in RecvOutcomes : mcp3221_read_end(c, o[1], o[2])
        \/ mcp3221_read_channel_exit(c)

\* The scheduler does not stop the callers inside the critical section for
\* ever, and every receive ends.  Nothing is assumed about which waiting
\* caller gets the lock, nor about callers outside the critical section.
Fairness == WF_vars(CriticalStep)

\* The state before mcp3221_probe, with a chip that always answers
\* [0xF8, 0x64]: which bytes come back plays no part in who holds the lock.
InitLive ==
    /\ i2c_func \in BOOLEAN
    /\ probe_pc = "start"
    /\ probe_ret = 0
    /\ probe_err = 0
    /\ allocated = FALSE
    /\ adc_i2c = FALSE
    /\ mutex_inited = FALSE
    /\ registered = FALSE
    /\ clientdata = FALSE
    /\ lock = 0
    /\ i2c_inflight = {}
    /\ i2c_data = <<0, 0>>
    /\ i2c_count = 0
    /\ replies = {<<248, 100>>}
    /\ CallInit

SpecLive == InitLive /\ [][Next]_vars /\ Fairness

\* One caller reading RAW from a bound device whose chip answers with one
\* fixed reply, for every reply of two bytes; the receive delivers both.
InitDecode ==
    /\ i2c_func = TRUE
    /\ probe_pc = "done"
    /\ probe_ret = 0
    /\ probe_err = 0
    /\ allocated = TRUE
    /\ adc_i2c = TRUE
    /\ mutex_inited = TRUE
    /\ registered = TRUE
    /\ clientdata = TRUE
    /\ lock = 0
    /\ i2c_inflight = {}
    /\ i2c_data = <<0, 0>>
    /\ i2c_count = 0
    /\ replies \in {{d} : d \in AllReplies}
    /\ CallInit

NextDecode ==
    \/ read_raw_RAW(1, 0)
    \/ mcp3221_read_channel_enter(1)
    \/ mcp3221_read_begin(1)
    \/ mcp3221_read_end(1, RECV_COUNT, RECV_COUNT)
    \/ mcp3221_read_channel_exit(1)
    \/ Return(1)

SpecDecode == InitDecode /\ [][NextDecode]_vars

\* ----------------------------------------------------------------- claims

\* Caller c's callback has returned, and it was a RAW read.
RawDone(c) == pc[c] = "done" /\ op[c] = "read" /\ mask[c] = "RAW"

\* Caller c's request is one the driver rejects: a write, or a read of an
\* info kind the switch has no case for.
Rejected(c) ==
    \/ op[c] = "write"
    \/ op[c] = "read" /\ mask[c] \notin SupportedMasks

\* C1: with any number of callers reading RAW concurrently, at most one bus
\* receive is in flight, and a receive is in flight only while its caller
\* holds the device lock.
C1_OneTransactionUnderLock ==
    /\ Cardinality(i2c_inflight) <= 1
    /\ \A c \in Callers : c \in i2c_inflight => lock = c

\* A receive is in flight while another caller waits for the lock.
C1_Witness ==
    \E c, d \in Callers :
        c # d /\ c \in i2c_inflight /\ pc[d] = "lock" /\ mask[d] = "RAW"

\* C2: a caller whose RAW read has returned, with a sample or with an
\* error, does not hold the lock, and the lock is free whenever no caller is
\* inside a read; after a failed read another read takes the lock and runs
\* its own receive.
C2_LockReleasedOnReturn ==
    /\ \A c \in Callers : pc[c] \in {"idle", "done"} => lock # c
    /\ (\A c \in Callers : pc[c] \in {"idle", "done", "lock"}) => lock = 0

\* A read has returned the error of a failed receive, and another caller has
\* since taken the lock and has its own receive in flight.
C2_Witness ==
    \E c, d \in Callers :
        /\ c # d
        /\ RawDone(c) /\ xfer[c] < 0 /\ ret[c] < 0
        /\ lock = d /\ d \in i2c_inflight

\* C3: a RAW read whose receive delivered the two bytes b0, b1 returns, with
\* temp = 256*b0 + b1 and m = temp mod 4096, m when m < 2048 and m - 4096
\* otherwise; so 0..2047 come back unchanged, 2048..4095 come back as
\* temp - 4096, and every result lies in -2048..2047.
C3_DecodeSigned12 ==
    \A c \in Callers :
        (RawDone(c) /\ xfer[c] = 2) =>
            LET temp == 256 * buf[c][1] + buf[c][2]
                m == temp % 4096
            IN  /\ ret[c] = IIO_VAL_INT
                /\ val1[c] = (IF m < 2048 THEN m ELSE m - 4096)
                /\ (temp <= 2047 => val1[c] = temp)
                /\ (temp \in 2048..4095 => val1[c] = temp - 4096)
                /\ val1[c] \in -2048..2047

\* The reply [0x08, 0x64] has come back as -1948.
C3_Witness ==
    \E c \in Callers :
        /\ RawDone(c) /\ xfer[c] = 2
        /\ buf[c][1] = 8 /\ buf[c][2] = 100
        /\ val1[c] = -1948

\* C4: the sample does not depend on bits 12..15 of the reply: it equals
\* the decode of the same reply with the high nibble of the first byte
\* cleared.
C4_HighNibbleIgnored ==
    \A c \in Callers :
        (RawDone(c) /\ xfer[c] = 2) =>
            val1[c] = decode(<<buf[c][1] % 16, buf[c][2]>>)

\* A reply with all four high bits set, [0xF8, 0x64], has come back as
\* -1948, the sample of [0x08, 0x64].
C4_Witness ==
    \E c \in Callers :
        /\ RawDone(c) /\ xfer[c] = 2
        /\ buf[c][1] = 248 /\ buf[c][2] = 100
        /\ val1[c] = -1948

\* C5: a RAW read whose receive failed returns an error that differs from
\* the error returned for an unsupported info kind.
C5_TransportFailureDistinct ==
    \A c, d \in Callers :
        ( /\ RawDone(c) /\ xfer[c] < 0
          /\ pc[d] = "done" /\ op[d] = "read" /\ mask[d] \notin SupportedMasks )
        => (ret[c] < 0 /\ ret[c] # ret[d])

\* C6: a SCALE read returns 0 and 805664, tagged integer-plus-nano, whatever
\* the state of the device.
C6_ScaleFixed ==
    \A c \in Callers :
        (pc[c] = "done" /\ op[c] = "read" /\ mask[c] = "SCALE") =>
            /\ ret[c] = IIO_VAL_INT_PLUS_NANO
            /\ val1[c] = 0
            /\ val2[c] = 805664

\* A SCALE read has returned while another caller holds the lock with a
\* receive in flight.
C6_Witness ==
    \E c, d \in Callers :
        /\ c # d
        /\ pc[c] = "done" /\ op[c] = "read" /\ mask[c] = "SCALE"
        /\ lock = d /\ d \in i2c_inflight

\* C7: a SAMPLING_FREQUENCY read returns 5500 tagged as a plain integer,
\* whatever the state of the device.
C7_SampFreqFixed ==
    \A c \in Callers :
        (pc[c] = "done" /\ op[c] = "read" /\ mask[c] = "SAMP_FREQ") =>
            /\ ret[c] = IIO_VAL_INT
            /\ val1[c] = 5500

\* A SAMPLING_FREQUENCY read has returned while another caller holds the
\* lock with a receive in flight.
C7_Witness ==
    \E c, d \in Callers :
        /\ c # d
        /\ pc[c] = "done" /\ op[c] = "read" /\ mask[c] = "SAMP_FREQ"
        /\ lock = d /\ d \in i2c_inflight

\* C8: a read of an unsupported info kind, and every write, returns -EINVAL
\* in one step that changes neither the lock nor the bus; such a request is
\* never waiting for the lock, never holds it and never has a receive.
C8_RejectedState ==
    \A c \in Callers :
        Rejected(c) =>
            /\ pc[c] = "done"
            /\ ret[c] = -EINVAL
            /\ lock # c
            /\ c \notin i2c_inflight
            /\ ntrans[c] = 0

C8_RejectedStep ==
    \A c \in Callers :
        (pc[c] = "idle" /\ Rejected(c)') =>
            /\ pc'[c] = "done"
            /\ lock' = lock
            /\ busVars' = busVars
            /\ probeVars' = probeVars

C8_RejectedLeavesDevice == [](C8_RejectedState) /\ [][C8_RejectedStep]_vars

\* A write and a read of an unsupported kind have both been rejected while a
\* third party's lock state is visible: here, while the lock is held.
C8_Witness ==
    \E c, d \in Callers :
        /\ c # d
        /\ pc[c] = "done" /\ Rejected(c) /\ ret[c] = -EINVAL
        /\ lock = d /\ d \in i2c_inflight

\* C9: when the adapter lacks I2C_FUNC_I2C, probing fails with -EOPNOTSUPP,
\* no device is allocated or registered, no request is ever served and no
\* receive ever happens; and no read or write ever returns -EOPNOTSUPP.
C9_UnsupportedTransport ==
    /\ ~i2c_func =>
         /\ probe_pc \in {"start", "done"}
         /\ (probe_pc = "done" => probe_ret = -EOPNOTSUPP)
         /\ ~allocated /\ ~adc_i2c /\ ~registered /\ ~clientdata
         /\ \A c \in Callers : pc[c] = "idle" /\ ntrans[c] = 0
         /\ i2c_inflight = {}
         /\ lock = 0
    /\ \A c \in Callers : pc[c] = "done" => ret[c] # -EOPNOTSUPP

\* Probing has failed for lack of the capability.
C9_Witness ==
    ~i2c_func /\ probe_pc = "done" /\ probe_ret = -EOPNOTSUPP

\* C10: with several callers reading RAW, the sample a caller gets is the
\* decode of the bytes delivered by the receive it started itself, and that
\* receive is on the wire only while the caller holds the lock.
C10_OwnTransaction ==
    /\ \A c \in Callers :
         c \in i2c_inflight => (lock = c /\ i2c_data = started[c])
    /\ \A c \in Callers :
         (RawDone(c) /\ ret[c] = IIO_VAL_INT) =>
            /\ buf[c] = Received(started[c], xfer[c])
            /\ val1[c] = decode(Received(started[c], xfer[c]))

\* One caller has got 100 from its own reply [0x00, 0x64] while the reply
\* [0xF8, 0x64] of another caller's receive is on the wire.
C10_Witness ==
    \E c, d \in Callers :
        /\ c # d
        /\ RawDone(c) /\ ret[c] = IIO_VAL_INT /\ xfer[c] = 2
        /\ started[c] = <<0, 100>> /\ val1[c] = 100
        /\ d \in i2c_inflight /\ i2c_data = <<248, 100>>

\* Caller c is inside a RAW read: waiting for the lock or holding it.
Reading(c) == pc[c] \in {"lock", "read", "recv", "unlock"}

\* Some caller inside a RAW read can take its next step.
SomeReaderCanStep ==
    \E c \in Callers :
        \/ ENABLED mcp3221_read_channel_enter(c)
        \/ ENABLED mcp3221_read_begin(c)
        \/ ENABLED (\E o \in RecvOutcomes : mcp3221_read_end(c, o[1], o[2]))
        \/ ENABLED mcp3221_read_channel_exit(c)

\* C11: the device starts Idle (lock free); under a fair scheduler and
\* receives that end, every Busy state (lock held) is followed by an Idle
\* one, whether the receive succeeded or failed; and whenever callers are
\* inside a read, one of them can step.
C11_BusyLeadsToIdle ==
    /\ lock = 0
    /\ (lock # 0) ~> (lock = 0)
    /\ []((\E c \in Callers : Reading(c)) => SomeReaderCanStep)

\* The lock is held by a caller whose receive has failed, while another
\* caller waits for it.
C11_Witness ==
    \E c, d \in Callers :
        /\ c # d
        /\ lock = c /\ pc[c] = "unlock" /\ xfer[c] < 0
        /\ pc[d] = "lock"

\* C12: a RAW read issues exactly one receive, of 2 bytes, whether it
\* succeeds or fails; no request issues a second one and the others issue
\* none.
C12_OneReceive ==
    \A c \in Callers :
        /\ ntrans[c] <= 1
        /\ (pc[c] \in {"recv", "unlock"} \/ RawDone(c)) => ntrans[c] = 1
        /\ (pc[c] \in {"idle", "lock", "read"} \/ mask[c] # "RAW")
               => ntrans[c] = 0
        /\ c \in i2c_inflight => i2c_count = 2

\* A read that failed and a read that succeeded have both returned, each
\* after one receive.
C12_Witness ==
    \E c, d \in Callers :
        /\ RawDone(c) /\ xfer[c] < 0 /\ ret[c] = -EINVAL /\ ntrans[c] = 1
        /\ RawDone(d) /\ xfer[d] = 2 /\ ret[d] = IIO_VAL_INT /\ ntrans[d] = 1

\* C13: two RAW reads that differ in the channel index and got the same
\* from the transport (the same return value and the same bytes) return the
\* same outcome after the same single receive.
C13_ChannelIgnored ==
    \A c, d \in Callers :
        ( /\ RawDone(c) /\ RawDone(d)
          /\ chan[c] # chan[d]
          /\ xfer[c] = xfer[d] /\ buf[c] = buf[d] )
        => /\ ret[c] = ret[d]
           /\ val1[c] = val1[d]
           /\ val2[c] = val2[d]
           /\ ntrans[c] = 1 /\ ntrans[d] = 1

\* Reads of channel 0 and of channel 1 have both returned -1948 for the
\* reply [0xF8, 0x64].
C13_Witness ==
    \E c, d \in Callers :
        /\ RawDone(c) /\ RawDone(d)
        /\ chan[c] = 0 /\ chan[d] = 1
        /\ xfer[c] = 2 /\ xfer[d] = 2
        /\ buf[c] = buf[d] /\ buf[c][1] = 248
        /\ val1[c] = -1948 /\ val1[d] = -1948

\* Caller c's request is a SCALE or SAMPLING_FREQUENCY read.
ConstantRead(c) == op[c] = "read" /\ mask[c] \in {"SCALE", "SAMP_FREQ"}

\* C14: a SCALE or SAMPLING_FREQUENCY read never waits for the lock, never
\* holds it and never starts a receive; it returns in one step that leaves
\* lock and bus alone, and that step can be taken by any idle caller of a
\* registered device, also while another caller holds the lock.
C14_ConstantState ==
    /\ \A c \in Callers :
         ConstantRead(c) =>
            /\ pc[c] = "done"
            /\ lock # c
            /\ c \notin i2c_inflight
            /\ ntrans[c] = 0
    /\ \A c \in Callers :
         (pc[c] = "idle" /\ registered) =>
            /\ ENABLED read_raw_SCALE(c)
            /\ ENABLED read_raw_SAMP_FREQ(c)

C14_ConstantStep ==
    \A c \in Callers :
        (pc[c] = "idle" /\ ConstantRead(c)') =>
            /\ pc'[c] = "done"
            /\ lock' = lock
            /\ busVars' = busVars

C14_ConstantReadsNeverWait ==
    [](C14_ConstantState) /\ [][C14_ConstantStep]_vars

\* A SCALE read has returned without a receive of its own while the reply
\* of another caller's receive is on the wire and that caller holds the lock.
C14_Witness ==
    \E c, d \in Callers :
        /\ c # d
        /\ pc[c] = "done" /\ ConstantRead(c) /\ ntrans[c] = 0
        /\ lock = d /\ pc[d] = "recv" /\ i2c_data = <<248, 100>>

\* C15: a RAW read returns IIO_VAL_INT exactly when the receive returned a
\* non-negative value, also when that value is below 2; the bytes the
\* receive did not deliver are decoded as zero.
C15_ShortReadIsSuccess ==
    \A c \in Callers :
        RawDone(c) =>
            /\ (ret[c] = IIO_VAL_INT) <=> (xfer[c] >= 0)
            /\ xfer[c] >= 0 =>
                 /\ val1[c] = decode(Received(started[c], xfer[c]))
                 /\ (xfer[c] = 0 => val1[c] = 0)
                 /\ (xfer[c] = 1 => val1[c] = decode(<<started[c][1], 0>>))

\* A receive that returned 1 after the byte 0xF8 has been reported as the
\* sample -2048 (0xF800).
C15_Witness ==
    \E c \in Callers :
        /\ RawDone(c) /\ xfer[c] = 1 /\ ret[c] = IIO_VAL_INT
        /\ started[c] = <<248, 100>>
        /\ val1[c] = -2048

\* C16: a RAW read whose receive failed has overwritten *val1 with the
\* decode of the buffer: 0 when nothing was stored, never the value the
\* caller passed in.
C16_ErrorOverwritesValue ==
    \A c \in Callers :
        (RawDone(c) /\ xfer[c] < 0) =>
            /\ ret[c] = -EINVAL
            /\ val1[c] = decode(buf[c])
            /\ (buf[c] = ZeroBuf => val1[c] = 0)
            /\ val1[c] \notin PrevVals
            /\ val2[c] \in PrevVals

\* A failed read has returned with 0 in *val1, and another with the decode
\* of the two bytes stored before the failure.
C16_Witness ==
    \E c, d \in Callers :
        /\ RawDone(c) /\ xfer[c] < 0 /\ buf[c] = ZeroBuf /\ val1[c] = 0
        /\ RawDone(d) /\ xfer[d] < 0 /\ buf[d][1] = 248 /\ buf[d][2] = 100
        /\ val1[d] = -1948

\* C17: the device is registered only after adc->i2c is set and the mutex
\* initialised, with the lock free; every request served finds them so; and
\* when registration fails mcp3221_probe returns the error it got.
C17_InitState ==
    /\ registered => (allocated /\ adc_i2c /\ mutex_inited)
    /\ \A c \in Callers :
         pc[c] # "idle" => (registered /\ adc_i2c /\ mutex_inited)
    /\ (probe_pc = "done" /\ probe_err < 0) =>
         (probe_ret = probe_err /\ ~registered /\ ~clientdata)

C17_RegisterStep ==
    (~registered /\ registered') =>
        /\ adc_i2c /\ mutex_inited
        /\ lock = 0 /\ lock' = 0
        /\ i2c_inflight = {}
        /\ \A c \in Callers : pc[c] = "idle"

C17_InitBeforeRegister == [](C17_InitState) /\ [][C17_RegisterStep]_vars

\* A read holds the lock with its receive in flight before mcp3221_probe
\* has returned.
C17_Witness ==
    \E c \in Callers :
        /\ probe_pc = "setdata" /\ registered /\ mutex_inited /\ adc_i2c
        /\ pc[c] = "recv" /\ lock = c

====
